---- MODULE Spec2Model ----
(***************************************************************************)
(* Position ledger of the copy-trading bot: the report commands of         *)
(* src/bin/polymarket_bot.rs read the trade log (a CSV file) row by row,   *)
(* fold it into a map token id -> Position and then classify and value     *)
(* the positions.                                                          *)
(*                                                                         *)
(* Numbers.  The program computes in f64; the model computes in exact      *)
(* fixed point:                                                            *)
(*   shares  in units of 0.0001 share   (0.001 share = 10)                 *)
(*   prices  in units of 0.01 USD       (0.50 USD    = 50)                 *)
(*   money   in units of 0.000001 USD   (1 USD       = 1000000)            *)
(* so that shares * price is money.  A quotient cost / shares is kept as   *)
(* the pair <<cost, shares>>.                                              *)
(***************************************************************************)
EXTENDS Integers, Sequences, FiniteSets, TLC

VARIABLES
    cmd,                  \* the report command that is running
    pc,                   \* "fold" while rows are read, "done" after the report
    csv,                  \* the results the csv reader has yielded so far
    positions,            \* HashMap<String, Position>
    all_trades,           \* Vec<CsvRow>            (check_pnl_discrepancy)
    total_buy_cost,       \* f64                    (check_pnl_discrepancy)
    total_sell_proceeds,  \* f64                    (check_pnl_discrepancy)
    skipped_trades,       \* counter                (check_pnl_discrepancy)
    failed_trades,        \* counter                (check_pnl_discrepancy)
    last_timestamp,       \* the Option<String> beside each Position (close_stale_positions)
    stats,                \* the counters of check_my_stats
    order_call,           \* orders.rs: what post_order answered and what the function returned
    wizard,               \* run_setup_wizard: the files it touches and what was typed
    report                \* what the command computed and printed after the fold

vars == <<cmd, pc, csv, positions, all_trades, total_buy_cost,
          total_sell_proceeds, skipped_trades, failed_trades, last_timestamp,
          stats, order_call, wizard, report>>

----------------------------------------------------------------------------
(* Bounds *)

MaxRows == 3       \* number of results read from the log

----------------------------------------------------------------------------
(* Thresholds of the program, in the model's units *)

position_epsilon == 10                  \* 0.001 share
large_position_threshold == 50000000    \* 50.0 USD
dust_share_ceiling == 1000              \* 0.1 share
dust_value_usd == 100000                \* 0.10 USD
large_loss_usd == 10000000              \* 10.0 USD (compared as < -10.0)
skip_rate_percent == 50                 \* 50.0 %
stale_days_threshold == 30              \* days
near_stale_window == 5                  \* days before the threshold
seconds_per_day == 86400
recent_trades_kept == 10                \* rows check_my_stats keeps
recent_trades_shown == 5                \* rows it prints

\* SystemTime::now() as seconds since the epoch, when close_stale_positions runs
now == 1800000000

\* u64::MAX, at the width that fits the integers of the checker: 2^31 - 1
\* stands for 2^64 - 1
u64_MAX == 2147483647

----------------------------------------------------------------------------
(* CsvRow: every column is an Option<String>.                              *)
(*   text column    [some, v]       v a sequence of words                  *)
(*   id column      [some, v]       v the id                               *)
(*   numeric column [some, ok, val] ok: the string parses as f64, to val   *)
(*   timestamp      [some, ok, val] ok: one of the two formats parses it,  *)
(*                                  to val seconds since the epoch         *)

NoText == [some |-> FALSE, v |-> <<>>]
Text(words) == [some |-> TRUE, v |-> words]
NoId == [some |-> FALSE, v |-> ""]
Id(s) == [some |-> TRUE, v |-> s]
NoNum == [some |-> FALSE, ok |-> FALSE, val |-> 0]
BadNum == [some |-> TRUE, ok |-> FALSE, val |-> 0]
Num(n) == [some |-> TRUE, ok |-> TRUE, val |-> n]

CsvRow(dir, sh, pr, st, usd, tok) ==
    [ok |-> TRUE, timestamp |-> NoNum, direction |-> dir, shares |-> sh,
     price_per_share |-> pr, order_status |-> st, usd_value |-> usd,
     clob_asset_id |-> tok]

\* a line that csv::Reader::deserialize::<CsvRow>() yields as Err
ErrResult ==
    [ok |-> FALSE, timestamp |-> NoNum, direction |-> NoText, shares |-> NoNum,
     price_per_share |-> NoNum, order_status |-> NoText, usd_value |-> NoNum,
     clob_asset_id |-> NoId]

\* the row with its timestamp column set
At(ts, row) == [row EXCEPT !.timestamp = ts]
DaysAgo(d) == Num(now - d * seconds_per_day)

BUY_FILL == Text(<<"BUY", "FILL">>)
SELL_FILL == Text(<<"SELL", "FILL">>)
OTHER_DIR == Text(<<"CANCEL">>)
ST_OK == Text(<<"200", "OK">>)
ST_SKIPPED == Text(<<"SKIPPED", "RISK", "GUARD">>)
ST_EXEC_FAIL == Text(<<"EXEC_FAIL", "not", "enough", "balance">>)
ST_ERROR == Text(<<"order", "error">>)

\* The rows a log is made of
Rows ==
    { \* Buy 10 @0.50 ($5), 40 days ago
      At(DaysAgo(40), CsvRow(BUY_FILL, Num(100000), Num(50), ST_OK, Num(5000000), Id("t1"))),
      \* Buy 10 @0.60 ($6), 30 days ago to the second
      At(DaysAgo(30), CsvRow(BUY_FILL, Num(100000), Num(60), ST_OK, Num(6000000), Id("t1"))),
      \* Sell 5 @0.70 ($3.50), one second less than 30 days ago
      At(Num(now - 30 * seconds_per_day + 1),
         CsvRow(SELL_FILL, Num(50000), Num(70), ST_OK, Num(3500000), Id("t1"))),
      \* Buy 10 @0.50 ($5), stamped one day after now
      At(Num(now + seconds_per_day),
         CsvRow(BUY_FILL, Num(100000), Num(50), ST_OK, Num(5000000), Id("t2"))),
      \* Buy 100 @0.50 ($50), a timestamp that does not parse
      At(BadNum, CsvRow(BUY_FILL, Num(1000000), Num(50), ST_OK, Num(50000000), Id("t2"))),
      CsvRow(SELL_FILL, Num(1000000), Num(50), ST_OK, Num(50000000), Id("t2")),   \* Sell 100 @0.50 ($50)
      CsvRow(BUY_FILL,  Num(5),       Num(10), ST_OK, Num(50),       Id("t2")),   \* Buy 0.0005 @0.10
      CsvRow(BUY_FILL,  Num(500),     Num(300), ST_OK, Num(150000),  Id("t2")),   \* Buy 0.05 @3.00 ($0.15)
      CsvRow(BUY_FILL,  Num(100000),  Num(0),  ST_OK, Num(5000000),  Id("t1")),   \* Buy 10, price "0" ($5)
      CsvRow(BUY_FILL,  Num(100000),  NoNum,   ST_OK, Num(5000000),  Id("t2")),   \* Buy 10, no price ($5)
      CsvRow(BUY_FILL,  Num(100000),  Num(50), ST_OK, NoNum,         Id("t1")),   \* Buy 10 @0.50, no usd_value
      CsvRow(OTHER_DIR, Num(100000),  Num(70), ST_OK, Num(7000000),  Id("t1")),   \* neither BUY nor SELL, @0.70
      CsvRow(BUY_FILL,  Num(100000),  Num(60), ST_SKIPPED, Num(6000000), Id("t1")),   \* skipped Buy
      CsvRow(BUY_FILL,  Num(100000),  Num(50), ST_EXEC_FAIL, Num(5000000), Id("t1")), \* failed Buy
      CsvRow(SELL_FILL, Num(50000),   Num(70), ST_ERROR, Num(3500000), Id("t1")),     \* failed Sell
      CsvRow(SELL_FILL, Num(50000),   Num(70), NoText, Num(3500000), Id("t1")),   \* Sell, no order_status
      CsvRow(BUY_FILL,  Num(100000),  Num(50), ST_OK, Num(5000000),  NoId) }      \* Buy, no clob_asset_id

Results == Rows \cup {ErrResult}

----------------------------------------------------------------------------
(* String and number helpers of the Rust code *)

\* str::contains(word)
Contains(words, w) == \E i \in 1..Len(words) : words[i] = w

\* Option<String>::as_deref().unwrap_or(default) on a text column
TextOr(col, default) == IF col.some THEN col.v ELSE default

\* <col>.as_deref().unwrap_or("0").parse::<f64>().unwrap_or(0.0), and
\* <string>.parse().unwrap_or(0.0) on a column that is present
ParseOrZero(col) == IF col.some /\ col.ok THEN col.val ELSE 0

\* row.clob_asset_id.as_deref().unwrap_or("unknown")
TokenOrUnknown(col) == IF col.some THEN col.v ELSE "unknown"

\* Position::default() with the token id set
NewPosition(tok) ==
    [token_id |-> tok, total_shares |-> 0, total_cost |-> 0, last_price |-> 0,
     buy_count |-> 0, sell_count |-> 0]

\* positions.entry(tok).or_insert_with(..): the entry, created if absent
Entry(ps, tok) == IF tok \in DOMAIN ps THEN ps[tok] ELSE NewPosition(tok)

\* the map with positions[tok] = p
Put(ps, tok, p) == [t \in (DOMAIN ps) \cup {tok} |-> IF t = tok THEN p ELSE ps[t]]

EmptyMap == [t \in {} |-> NewPosition(t)]

\* close_stale_positions keeps an Option<String> beside each Position, None at first
EmptyTimestamps == [t \in {} |-> NoNum]

\* check_my_stats, the counters before the loop
NoStats ==
    [total_trades |-> 0, buy_trades |-> 0, sell_trades |-> 0,
     successful_trades |-> 0, total_volume |-> 0, recent_trades |-> <<>>]

RECURSIVE SetSum(_, _)
\* sum of f[x] over the x of S
SetSum(f, S) ==
    IF S = {} THEN 0
    ELSE LET x == CHOOSE y \in S : TRUE IN f[x] + SetSum(f, S \ {x})

----------------------------------------------------------------------------
(* The folds.  Each takes the map and one parsed row and returns the map.  *)

\* `if let Some(ref status) = row.order_status { if status.contains("SKIPPED") { continue; } }`
SkippedByGuard(row) ==
    row.order_status.some /\ Contains(row.order_status.v, "SKIPPED")

\* a plausible slip in DetailedUpdate: a sell leaves the cost basis alone
DetailedUpdate_SellKeepsCost(ps, row) ==
    LET token_id == TokenOrUnknown(row.clob_asset_id)
        direction == TextOr(row.direction, <<"?">>)
        shares == ParseOrZero(row.shares)
        price == ParseOrZero(row.price_per_share)
        usd_val == ParseOrZero(row.usd_value)
        pos == Entry(ps, token_id)
    IN  IF Contains(direction, "BUY") THEN
            Put(ps, token_id,
                [pos EXCEPT !.total_shares = @ + shares, !.total_cost = @ + usd_val,
                            !.buy_count = @ + 1, !.last_price = price])
        ELSE IF Contains(direction, "SELL") THEN
            Put(ps, token_id,
                [pos EXCEPT !.total_shares = @ - shares,
                            !.sell_count = @ + 1, !.last_price = price])
        ELSE Put(ps, token_id, pos)

\* check_positions_detailed, a row that is not skipped: defaults, entry, update
DetailedUpdate(ps, row) ==
    LET token_id == TokenOrUnknown(row.clob_asset_id)
        direction == TextOr(row.direction, <<"?">>)
        shares == ParseOrZero(row.shares)
        price == ParseOrZero(row.price_per_share)
        usd_val == ParseOrZero(row.usd_value)
        pos == Entry(ps, token_id)
    IN  IF Contains(direction, "BUY") THEN
            Put(ps, token_id,
                [pos EXCEPT !.total_shares = @ + shares, !.total_cost = @ + usd_val,
                            !.buy_count = @ + 1, !.last_price = price])
        ELSE IF Contains(direction, "SELL") THEN
            Put(ps, token_id,
                [pos EXCEPT !.total_shares = @ - shares, !.total_cost = @ - usd_val,
                            !.sell_count = @ + 1, !.last_price = price])
        ELSE Put(ps, token_id, pos)

\* check_positions_detailed, the body of the loop for a row that is Ok
DetailedApply(ps, row) ==
    IF SkippedByGuard(row) THEN ps ELSE DetailedUpdate(ps, row)

\* sell_large_positions, the body of the loop for a row that is Ok
SellLargeApply(ps, row) ==
    IF SkippedByGuard(row) THEN ps
    ELSE IF ~(row.clob_asset_id.some /\ row.direction.some /\ row.shares.some
              /\ row.price_per_share.some /\ row.usd_value.some) THEN ps
    ELSE
      LET token_id == row.clob_asset_id.v
          direction == row.direction.v
          shares == ParseOrZero(row.shares)
          price == ParseOrZero(row.price_per_share)
          usd_value == ParseOrZero(row.usd_value)
          position == [Entry(ps, token_id) EXCEPT !.token_id = token_id,
                                                  !.last_price = price]
      IN  IF Contains(direction, "BUY") THEN
              Put(ps, token_id,
                  [position EXCEPT !.total_shares = @ + shares,
                                   !.total_cost = @ + usd_value, !.buy_count = @ + 1])
          ELSE IF Contains(direction, "SELL") THEN
              Put(ps, token_id,
                  [position EXCEPT !.total_shares = @ - shares,
                                   !.total_cost = @ - usd_value, !.sell_count = @ + 1])
          ELSE Put(ps, token_id, position)

\* close_stale_positions, the body of the loop for a row that is Ok, on the
\* map split in two: st.positions and st.last_timestamp
StaleApply(st, row) ==
    IF SkippedByGuard(row) THEN st
    ELSE IF ~(row.clob_asset_id.some /\ row.direction.some /\ row.shares.some
              /\ row.price_per_share.some /\ row.usd_value.some) THEN st
    ELSE
      LET token_id == row.clob_asset_id.v
          direction == row.direction.v
          shares == ParseOrZero(row.shares)
          price == ParseOrZero(row.price_per_share)
          usd_value == ParseOrZero(row.usd_value)
          position == [Entry(st.positions, token_id) EXCEPT !.token_id = token_id,
                                                            !.last_price = price]
          updated ==
            IF Contains(direction, "BUY") THEN
                [position EXCEPT !.total_shares = @ + shares,
                                 !.total_cost = @ + usd_value, !.buy_count = @ + 1]
            ELSE IF Contains(direction, "SELL") THEN
                [position EXCEPT !.total_shares = @ - shares,
                                 !.total_cost = @ - usd_value, !.sell_count = @ + 1]
            ELSE position
          old_ts == IF token_id \in DOMAIN st.last_timestamp
                    THEN st.last_timestamp[token_id] ELSE NoNum
          new_ts == IF row.timestamp.some THEN row.timestamp ELSE old_ts
      IN  [positions |-> Put(st.positions, token_id, updated),
           last_timestamp |->
               [t \in DOMAIN st.last_timestamp \cup {token_id} |->
                    IF t = token_id THEN new_ts ELSE st.last_timestamp[t]]]

\* check_my_stats: `recent_trades.push(row)`, after `remove(0)` when 10 are kept
PushRecent(recent, row) ==
    IF Len(recent) < recent_trades_kept THEN Append(recent, row)
    ELSE Append(Tail(recent), row)

\* a plausible slip in StatsApply: the buffer is full after 10 rows and stays so
StatsApply_KeepsFirstTen(st, row) ==
    LET is_buy == row.direction.some /\ Contains(row.direction.v, "BUY")
        is_sell == row.direction.some /\ ~is_buy /\ Contains(row.direction.v, "SELL")
        successful == row.order_status.some /\ ~Contains(row.order_status.v, "SKIPPED")
        volume ==
            IF row.usd_value.some THEN
                (IF row.usd_value.ok THEN row.usd_value.val ELSE 0)
            ELSE IF row.shares.some /\ row.price_per_share.some
                    /\ row.shares.ok /\ row.price_per_share.ok
                 THEN row.shares.val * row.price_per_share.val
            ELSE 0
    IN  [st EXCEPT !.total_trades = @ + 1,
                   !.buy_trades = @ + (IF is_buy THEN 1 ELSE 0),
                   !.sell_trades = @ + (IF is_sell THEN 1 ELSE 0),
                   !.successful_trades = @ + (IF successful THEN 1 ELSE 0),
                   !.total_volume = @ + volume,
                   !.recent_trades = IF Len(@) < recent_trades_kept
                                     THEN Append(@, row) ELSE @]

\* check_my_stats, the body of the loop for a row that is Ok
StatsApply(st, row) ==
    LET is_buy == row.direction.some /\ Contains(row.direction.v, "BUY")
        is_sell == row.direction.some /\ ~is_buy /\ Contains(row.direction.v, "SELL")
        successful == row.order_status.some /\ ~Contains(row.order_status.v, "SKIPPED")
        volume ==
            IF row.usd_value.some THEN
                (IF row.usd_value.ok THEN row.usd_value.val ELSE 0)
            ELSE IF row.shares.some /\ row.price_per_share.some
                    /\ row.shares.ok /\ row.price_per_share.ok
                 THEN row.shares.val * row.price_per_share.val
            ELSE 0
    IN  [st EXCEPT !.total_trades = @ + 1,
                   !.buy_trades = @ + (IF is_buy THEN 1 ELSE 0),
                   !.sell_trades = @ + (IF is_sell THEN 1 ELSE 0),
                   !.successful_trades = @ + (IF successful THEN 1 ELSE 0),
                   !.total_volume = @ + volume,
                   !.recent_trades = PushRecent(@, row)]

RECURSIVE SellLargeFold(_)
\* sell_large_positions, the whole loop over the results q of the reader
SellLargeFold(q) ==
    IF Len(q) = 0 THEN EmptyMap
    ELSE LET ps == SellLargeFold(SubSeq(q, 1, Len(q) - 1))
             result == q[Len(q)]
         IN  IF result.ok THEN SellLargeApply(ps, result) ELSE ps

\* a plausible slip in PnlUpdate: whatever is not a SELL is folded as a BUY
PnlUpdate_ElseIsBuy(st, row) ==
    LET token_id == TokenOrUnknown(row.clob_asset_id)
        direction == TextOr(row.direction, <<"?">>)
        shares == ParseOrZero(row.shares)
        usd_val == ParseOrZero(row.usd_value)
        pos == Entry(st.positions, token_id)
    IN  IF Contains(direction, "SELL") /\ ~Contains(direction, "BUY") THEN
            [st EXCEPT
               !.positions = Put(@, token_id,
                   [pos EXCEPT !.total_shares = @ - shares,
                               !.total_cost = @ - usd_val, !.sell_count = @ + 1]),
               !.total_sell_proceeds = @ + usd_val]
        ELSE
            [st EXCEPT
               !.positions = Put(@, token_id,
                   [pos EXCEPT !.total_shares = @ + shares,
                               !.total_cost = @ + usd_val, !.buy_count = @ + 1]),
               !.total_buy_cost = @ + usd_val]

\* check_pnl_discrepancy, a row that is neither skipped nor failed, on the
\* record of the loop's mutable locals
PnlUpdate(st, row) ==
    LET token_id == TokenOrUnknown(row.clob_asset_id)
        direction == TextOr(row.direction, <<"?">>)
        shares == ParseOrZero(row.shares)
        usd_val == ParseOrZero(row.usd_value)
        pos == Entry(st.positions, token_id)
    IN  IF Contains(direction, "BUY") THEN
            [st EXCEPT
               !.positions = Put(@, token_id,
                   [pos EXCEPT !.total_shares = @ + shares,
                               !.total_cost = @ + usd_val, !.buy_count = @ + 1]),
               !.total_buy_cost = @ + usd_val]
        ELSE IF Contains(direction, "SELL") THEN
            [st EXCEPT
               !.positions = Put(@, token_id,
                   [pos EXCEPT !.total_shares = @ - shares,
                               !.total_cost = @ - usd_val, !.sell_count = @ + 1]),
               !.total_sell_proceeds = @ + usd_val]
        ELSE [st EXCEPT !.positions = Put(@, token_id, pos)]

\* a plausible slip in PnlApply: the skipped row is counted, `continue` is missing
PnlApply_NoContinue(st, row) ==
    LET pushed == [st EXCEPT !.all_trades = Append(@, row)]
        status == TextOr(row.order_status, <<"?">>)
    IN
    IF Contains(status, "SKIPPED") THEN
        PnlUpdate([pushed EXCEPT !.skipped_trades = @ + 1], row)
    ELSE IF Contains(status, "EXEC_FAIL") \/ Contains(status, "error") THEN
        [pushed EXCEPT !.failed_trades = @ + 1]
    ELSE PnlUpdate(pushed, row)

\* check_pnl_discrepancy, the body of the loop for a row that is Ok
PnlApply(st, row) ==
    LET pushed == [st EXCEPT !.all_trades = Append(@, row)]
        status == TextOr(row.order_status, <<"?">>)
    IN
    IF Contains(status, "SKIPPED") THEN
        [pushed EXCEPT !.skipped_trades = @ + 1]
    ELSE IF Contains(status, "EXEC_FAIL") \/ Contains(status, "error") THEN
        [pushed EXCEPT !.failed_trades = @ + 1]
    ELSE PnlUpdate(pushed, row)

\* close_resolved_positions, the body of the loop for a row that is Ok
ResolvedApply(ps, row) ==
    IF SkippedByGuard(row) THEN ps
    ELSE IF ~(row.clob_asset_id.some /\ row.direction.some /\ row.shares.some
              /\ row.price_per_share.some /\ row.usd_value.some) THEN ps
    ELSE
      LET token_id == row.clob_asset_id.v
          direction == row.direction.v
          shares == ParseOrZero(row.shares)
          price == ParseOrZero(row.price_per_share)
          usd_value == ParseOrZero(row.usd_value)
          position == [Entry(ps, token_id) EXCEPT !.token_id = token_id,
                                                  !.last_price = price]
      IN  IF Contains(direction, "BUY") THEN
              Put(ps, token_id,
                  [position EXCEPT !.total_shares = @ + shares,
                                   !.total_cost = @ + usd_value, !.buy_count = @ + 1])
          ELSE IF Contains(direction, "SELL") THEN
              Put(ps, token_id,
                  [position EXCEPT !.total_shares = @ - shares,
                                   !.total_cost = @ - usd_value, !.sell_count = @ + 1])
          ELSE Put(ps, token_id, position)

\* redeem_resolved_positions, the body of the loop for a row that is Ok
RedeemApply(ps, row) ==
    IF SkippedByGuard(row) THEN ps
    ELSE IF ~(row.clob_asset_id.some /\ row.direction.some /\ row.shares.some
              /\ row.price_per_share.some /\ row.usd_value.some) THEN ps
    ELSE
      LET token_id == row.clob_asset_id.v
          direction == row.direction.v
          shares == ParseOrZero(row.shares)
          price == ParseOrZero(row.price_per_share)
          usd_value == ParseOrZero(row.usd_value)
          position == [Entry(ps, token_id) EXCEPT !.token_id = token_id,
                                                  !.last_price = price]
      IN  IF Contains(direction, "BUY") THEN
              Put(ps, token_id,
                  [position EXCEPT !.total_shares = @ + shares,
                                   !.total_cost = @ + usd_value, !.buy_count = @ + 1])
          ELSE IF Contains(direction, "SELL") THEN
              Put(ps, token_id,
                  [position EXCEPT !.total_shares = @ - shares,
                                   !.total_cost = @ - usd_value, !.sell_count = @ + 1])
          ELSE Put(ps, token_id, position)

\* `for result in reader.deserialize::<CsvRow>() { if let Ok(row) = result {..} }`:
\* the ledger each command holds when its loop over the results q has ended
DetailedFold(q) ==
    LET after[i \in 0..Len(q)] ==
            IF i = 0 THEN EmptyMap
            ELSE IF q[i].ok THEN DetailedApply(after[i - 1], q[i])
            ELSE after[i - 1]
    IN  after[Len(q)]

PnlFold(q) ==
    LET after[i \in 0..Len(q)] ==
            IF i = 0 THEN [positions |-> EmptyMap, all_trades |-> <<>>,
                               total_buy_cost |-> 0, total_sell_proceeds |-> 0,
                               skipped_trades |-> 0, failed_trades |-> 0]
            ELSE IF q[i].ok THEN PnlApply(after[i - 1], q[i])
            ELSE after[i - 1]
    IN  after[Len(q)].positions

StaleFold(q) ==
    LET after[i \in 0..Len(q)] ==
            IF i = 0 THEN [positions |-> EmptyMap,
                               last_timestamp |-> EmptyTimestamps]
            ELSE IF q[i].ok THEN StaleApply(after[i - 1], q[i])
            ELSE after[i - 1]
    IN  after[Len(q)].positions

ResolvedFold(q) ==
    LET after[i \in 0..Len(q)] ==
            IF i = 0 THEN EmptyMap
            ELSE IF q[i].ok THEN ResolvedApply(after[i - 1], q[i])
            ELSE after[i - 1]
    IN  after[Len(q)]

RedeemFold(q) ==
    LET after[i \in 0..Len(q)] ==
            IF i = 0 THEN EmptyMap
            ELSE IF q[i].ok THEN RedeemApply(after[i - 1], q[i])
            ELSE after[i - 1]
    IN  after[Len(q)]

----------------------------------------------------------------------------
(* Classification and valuation *)

\* a plausible slip in IsOpen: the boundary is included
IsOpen_Inclusive(pos) == pos.total_shares >= position_epsilon

\* `total_shares > 0.001`: the position is shown / valued / counted
IsOpen(pos) == pos.total_shares > position_epsilon

\* a price is a pair <<numerator, denominator>>; shares * (cost / shares) is
\* taken as cost, which is what the exact product is
Times(shares, price) ==
    IF price[2] = shares THEN price[1] ELSE (shares * price[1]) \div price[2]
IsZeroPrice(price) == price[1] = 0
Max(a, b) == IF a >= b THEN a ELSE b
Min(a, b) == IF a <= b THEN a ELSE b

\* check_pnl_discrepancy: `let price = if pos.last_price > 0.0 {..} else {..}`
PnlPrice(pos) ==
    IF pos.last_price > 0 THEN <<pos.last_price, 1>>
    ELSE IF pos.total_shares > 0 THEN <<pos.total_cost, pos.total_shares>>
    ELSE <<0, 1>>

\* sell_large_positions, in the filter: the same expression
LargePrice(pos) ==
    IF pos.last_price > 0 THEN <<pos.last_price, 1>>
    ELSE IF pos.total_shares > 0 THEN <<pos.total_cost, pos.total_shares>>
    ELSE <<0, 1>>

\* a plausible slip in IsLarge: a value of exactly the threshold is not large
IsLarge_Strict(pos) ==
    /\ IsOpen(pos)
    /\ Times(pos.total_shares, LargePrice(pos)) > large_position_threshold

\* sell_large_positions, the filter_map: open and worth the threshold or more
IsLarge(pos) ==
    /\ IsOpen(pos)
    /\ Times(pos.total_shares, LargePrice(pos)) >= large_position_threshold

\* `now - trade_time` on u64 when overflow checks are off: modulo 2^64
WrappingSub(a, b) == IF a >= b THEN a - b ELSE ((a - b) + u64_MAX) + 1

\* `now - trade_time` on u64 when overflow checks are on: the thread panics
SubOverflows(ts) == ts.some /\ ts.ok /\ ts.val > now

\* close_stale_positions: the age in whole days of a timestamp column, as a
\* set: empty when the column is None or parses in neither format
AgeDays(ts) ==
    IF ts.some /\ ts.ok THEN {WrappingSub(now, ts.val) \div seconds_per_day} ELSE {}

\* close_stale_positions: `age >= stale_days_threshold`
IsStale(ts) == \E age \in AgeDays(ts) : age >= stale_days_threshold

\* close_stale_positions: approaching the threshold
IsNearStale(ts) ==
    \E age \in AgeDays(ts) :
        /\ age >= Max(stale_days_threshold - near_stale_window, 0)
        /\ age < stale_days_threshold

\* sell_large_positions, the key of the sort
LargeSortValue(pos) ==
    Times(pos.total_shares,
          IF pos.last_price > 0 THEN <<pos.last_price, 1>>
          ELSE <<pos.total_cost, Max(pos.total_shares, position_epsilon)>>)

\* sell_large_positions, the price of a printed line
LargeShownPrice(pos) ==
    LET avg_price == IF pos.buy_count > 0 THEN <<pos.total_cost, pos.total_shares>>
                     ELSE <<0, 1>>
    IN  IF pos.last_price > 0 THEN <<pos.last_price, 1>> ELSE avg_price

\* check_positions_detailed: `pos.total_shares * pos.last_price`, key and value
DetailedValue(pos) == pos.total_shares * pos.last_price

\* a plausible slip in IsDust: the label also looks at a counter of the fold
IsDust_OnlyWithoutSkips(pos) ==
    /\ skipped_trades = 0
    /\ pos.total_shares > position_epsilon
    /\ pos.total_shares < dust_share_ceiling
    /\ pos.total_shares * pos.last_price < dust_value_usd

\* check_pnl_discrepancy, the dust filter
IsDust(pos) ==
    /\ pos.total_shares > position_epsilon
    /\ pos.total_shares < dust_share_ceiling
    /\ pos.total_shares * pos.last_price < dust_value_usd

\* a plausible slip in IsNegativeCost: closed positions are looked at too
IsNegativeCost_AnyPosition(pos) == pos.total_cost < 0

\* check_pnl_discrepancy, the negative cost basis filter
IsNegativeCost(pos) == pos.total_shares > position_epsilon /\ pos.total_cost < 0

\* a plausible slip in RealizedPnl: the open cost basis is subtracted, not added back
RealizedPnl_BasisSubtracted(sell_proceeds, buy_cost, cost_basis) ==
    sell_proceeds - buy_cost - cost_basis

\* `realized_pnl = total_sell_proceeds - (total_buy_cost - total_cost_basis)`
RealizedPnl(sell_proceeds, buy_cost, cost_basis) ==
    sell_proceeds - (buy_cost - cost_basis)

\* `unrealized_pnl = total_current_value - total_cost_basis`
UnrealizedPnl(current_value, cost_basis) == current_value - cost_basis

\* a plausible slip in HighSkipRate: exactly 50% warns
HighSkipRate_Inclusive(skipped, total) == skipped * 100 >= skip_rate_percent * total

\* `skip_rate = skipped / len * 100.0; skip_rate > 50.0`, without the division
HighSkipRate(skipped, total) == skipped * 100 > skip_rate_percent * total

\* the orders a (stable) sort by descending key can leave the tokens of S in,
\* the order before the sort being the HashMap's
SortedDescending(S, key) ==
    { o \in [1..Cardinality(S) -> S] :
        /\ \A i, j \in 1..Cardinality(S) : i # j => o[i] # o[j]
        /\ \A i, j \in 1..Cardinality(S) : i < j => key[o[i]] >= key[o[j]] }

NoReport ==
    [stage |-> "none", shown |-> <<>>, total_cost |-> 0, total_value |-> 0,
     total_current_value |-> 0, total_cost_basis |-> 0, open_positions_count |-> 0,
     positions_with_zero_price |-> 0, realized_pnl |-> 0, unrealized_pnl |-> 0,
     total_pnl |-> 0, expected_pnl_if_closed |-> 0, net_cash_flow |-> 0,
     dust_positions |-> 0, negative_cost |-> 0, issues |-> {},
     successful_trades |-> 0, positions_with_age |-> 0,
     positions_without_timestamp |-> 0, near_stale |-> 0, recent |-> <<>>]

\* check_positions_detailed after the loop; order is the sorted open_positions
DetailedReport(ps, order) ==
    IF Len(order) = 0 THEN [NoReport EXCEPT !.stage = "empty"]
    ELSE
      LET line(i) ==
            LET pos == ps[order[i]]
                current_value == pos.total_shares * pos.last_price
            IN  [token_id |-> pos.token_id,
                 avg_price |-> IF pos.total_shares > 0
                               THEN <<pos.total_cost, pos.total_shares>> ELSE <<0, 1>>,
                 price |-> <<pos.last_price, 1>>,
                 current_value |-> current_value,
                 pnl |-> current_value - pos.total_cost]
          S == {order[i] : i \in 1..Len(order)}
      IN  [NoReport EXCEPT
             !.stage = "full",
             !.shown = [i \in 1..Len(order) |-> line(i)],
             !.total_cost = SetSum([t \in S |-> ps[t].total_cost], S),
             !.total_value = SetSum([t \in S |-> DetailedValue(ps[t])], S),
             !.open_positions_count = Len(order)]

\* sell_large_positions after the loop; order is the sorted large_positions
SellLargeReport(ps, order) ==
    IF Len(order) = 0 THEN [NoReport EXCEPT !.stage = "empty"]
    ELSE
      LET line(i) ==
            LET pos == ps[order[i]]
                price == LargeShownPrice(pos)
                current_value == Times(pos.total_shares, price)
            IN  [token_id |-> pos.token_id,
                 avg_price |-> IF pos.buy_count > 0
                               THEN <<pos.total_cost, pos.total_shares>> ELSE <<0, 1>>,
                 price |-> price,
                 current_value |-> current_value,
                 pnl |-> current_value - pos.total_cost]
          S == {order[i] : i \in 1..Len(order)}
      IN  [NoReport EXCEPT
             !.stage = "full",
             !.shown = [i \in 1..Len(order) |-> line(i)],
             !.total_cost = SetSum([t \in S |-> ps[t].total_cost], S),
             !.total_value =
                 SetSum([t \in S |-> Times(ps[t].total_shares, LargeShownPrice(ps[t]))], S)]

\* check_pnl_discrepancy after the loop, on the loop's locals
PnlReport(st) ==
    IF Len(st.all_trades) = 0 THEN [NoReport EXCEPT !.stage = "empty"]
    ELSE
      LET ps == st.positions
          open == {t \in DOMAIN ps : IsOpen(ps[t])}
          total_current_value ==
              SetSum([t \in open |-> Times(ps[t].total_shares, PnlPrice(ps[t]))], open)
          total_cost_basis == SetSum([t \in open |-> ps[t].total_cost], open)
          zero == Cardinality({t \in open : IsZeroPrice(PnlPrice(ps[t]))})
          realized_pnl ==
              RealizedPnl(st.total_sell_proceeds, st.total_buy_cost, total_cost_basis)
          unrealized_pnl == UnrealizedPnl(total_current_value, total_cost_basis)
          dust == Cardinality({t \in DOMAIN ps : IsDust(ps[t])})
          negative == Cardinality({t \in DOMAIN ps : IsNegativeCost(ps[t])})
      IN  [NoReport EXCEPT
             !.stage = "full",
             !.total_current_value = total_current_value,
             !.total_cost_basis = total_cost_basis,
             !.open_positions_count = Cardinality(open),
             !.successful_trades =
                 Len(st.all_trades) - st.skipped_trades - st.failed_trades,
             !.positions_with_zero_price = zero,
             !.realized_pnl = realized_pnl,
             !.unrealized_pnl = unrealized_pnl,
             !.total_pnl = realized_pnl + unrealized_pnl,
             !.expected_pnl_if_closed =
                 st.total_sell_proceeds + total_current_value - st.total_buy_cost,
             !.net_cash_flow = st.total_sell_proceeds - st.total_buy_cost,
             !.dust_positions = dust,
             !.negative_cost = negative,
             !.issues =
                 (IF HighSkipRate(st.skipped_trades, Len(st.all_trades))
                  THEN {"high skip rate"} ELSE {})
                 \cup (IF st.failed_trades > 0 THEN {"failed trades"} ELSE {})
                 \cup (IF zero > 0 THEN {"zero price"} ELSE {})
                 \cup (IF unrealized_pnl < -large_loss_usd
                       THEN {"unrealized losses"} ELSE {})
                 \cup (IF dust > 0 THEN {"dust"} ELSE {})
                 \cup (IF negative > 0 THEN {"negative cost basis"} ELSE {})]

\* close_stale_positions after the loop; order is the sorted stale_positions
StaleReport(ps, lts, order) ==
    LET open == {t \in DOMAIN ps : IsOpen(ps[t])}
        with_age == {t \in open : AgeDays(lts[t]) # {}}
        counted ==
          [NoReport EXCEPT
             !.open_positions_count = Cardinality(open),
             !.positions_with_age = Cardinality(with_age),
             !.positions_without_timestamp = Cardinality(open \ with_age)]
    IN  IF Len(order) = 0 THEN
            [counted EXCEPT
               !.stage = "empty",
               !.near_stale = Cardinality({t \in with_age : IsNearStale(lts[t])})]
        ELSE
          LET line(i) ==
                LET pos == ps[order[i]]
                    price == LargeShownPrice(pos)
                    current_value == Times(pos.total_shares, price)
                IN  [token_id |-> pos.token_id,
                     avg_price |-> IF pos.buy_count > 0
                                   THEN <<pos.total_cost, pos.total_shares>> ELSE <<0, 1>>,
                     price |-> price,
                     current_value |-> current_value,
                     age_days |-> CHOOSE age \in AgeDays(lts[order[i]]) : TRUE,
                     pnl |-> current_value - pos.total_cost]
              S == {order[i] : i \in 1..Len(order)}
          IN  [counted EXCEPT
                 !.stage = "full",
                 !.shown = [i \in 1..Len(order) |-> line(i)],
                 !.total_cost = SetSum([t \in S |-> ps[t].total_cost], S),
                 !.total_value =
                     SetSum([t \in S |-> Times(ps[t].total_shares, LargeShownPrice(ps[t]))], S)]

\* check_my_stats, the statistics printed after the loop
StatsReport(st) ==
    LET shown == Min(Len(st.recent_trades), recent_trades_shown)
    IN  [NoReport EXCEPT
           !.stage = "full",
           !.successful_trades = st.successful_trades,
           \* `recent_trades.iter().rev().take(5)`
           !.recent = [i \in 1..shown |-> st.recent_trades[Len(st.recent_trades) + 1 - i]]]

----------------------------------------------------------------------------
(* The state machine *)

Commands ==
    {"check_positions_detailed", "check_pnl_discrepancy", "sell_large_positions",
     "close_stale_positions", "check_my_stats"}

\* orders.rs: no order function has been called
NoOrder == [state |-> "not called"]

\* run_setup_wizard: the wizard at its first line, beside an .env and an
\* .env.example in the given states
WizardStart(env, example) ==
    [env_at_start |-> env, env |-> env, example |-> example,
     backup |-> [kind |-> "absent"], preserved_section |-> 0,
     asked |-> FALSE, line |-> <<>>, overwrite |-> <<>>, events |-> <<>>]

\* the wizard is not the command that runs
NoWizard == WizardStart([kind |-> "absent"], [exists |-> FALSE, lines |-> 0])

\* no report command has read or printed anything
NothingRead ==
    /\ csv = <<>>
    /\ positions = EmptyMap
    /\ all_trades = <<>>
    /\ total_buy_cost = 0
    /\ total_sell_proceeds = 0
    /\ skipped_trades = 0
    /\ failed_trades = 0
    /\ last_timestamp = EmptyTimestamps
    /\ stats = NoStats
    /\ report = NoReport

Init ==
    /\ cmd \in Commands
    /\ pc = "fold"
    /\ NothingRead
    /\ order_call = NoOrder
    /\ wizard = NoWizard

pnlLocals == <<all_trades, total_buy_cost, total_sell_proceeds, skipped_trades, failed_trades>>
otherLocals == <<last_timestamp, stats>>

\* the reader yields Err: `if let Ok(row) = result` drops the line, in every command
ReadErr ==
    /\ pc = "fold"
    /\ Len(csv) < MaxRows
    /\ csv' = Append(csv, ErrResult)
    /\ UNCHANGED <<cmd, order_call, wizard, pc, positions, pnlLocals, otherLocals, report>>

\* check_positions_detailed: one turn of the loop on an Ok row
DetailedRow ==
    /\ cmd = "check_positions_detailed"
    /\ pc = "fold"
    /\ Len(csv) < MaxRows
    /\ \E row \in Rows :
         /\ csv' = Append(csv, row)
         /\ positions' = DetailedApply(positions, row)
    /\ UNCHANGED <<cmd, order_call, wizard, pc, pnlLocals, otherLocals, report>>

\* check_positions_detailed: end of the log, filter, sort and print
DetailedEnd ==
    /\ cmd = "check_positions_detailed"
    /\ pc = "fold"
    /\ LET open == {t \in DOMAIN positions : IsOpen(positions[t])}
           key == [t \in open |-> DetailedValue(positions[t])]
       IN  \E order \in SortedDescending(open, key) :
               report' = DetailedReport(positions, order)
    /\ pc' = "done"
    /\ UNCHANGED <<cmd, order_call, wizard, csv, positions, pnlLocals, otherLocals>>

\* sell_large_positions: one turn of the loop on an Ok row
SellLargeRow ==
    /\ cmd = "sell_large_positions"
    /\ pc = "fold"
    /\ Len(csv) < MaxRows
    /\ \E row \in Rows :
         /\ csv' = Append(csv, row)
         /\ positions' = SellLargeApply(positions, row)
    /\ UNCHANGED <<cmd, order_call, wizard, pc, pnlLocals, otherLocals, report>>

\* a plausible slip in SellLargeEnd: the filter is a retain on the map itself
SellLargeEnd_RetainsLarge ==
    /\ cmd = "sell_large_positions"
    /\ pc = "fold"
    /\ LET large == {t \in DOMAIN positions : IsLarge(positions[t])}
           key == [t \in large |-> LargeSortValue(positions[t])]
       IN  /\ \E order \in SortedDescending(large, key) :
                   report' = SellLargeReport(positions, order)
           /\ positions' = [t \in large |-> positions[t]]
    /\ pc' = "done"
    /\ UNCHANGED <<cmd, order_call, wizard, csv, pnlLocals, otherLocals>>

\* sell_large_positions: end of the log, filter, sort and print
SellLargeEnd ==
    /\ cmd = "sell_large_positions"
    /\ pc = "fold"
    /\ LET large == {t \in DOMAIN positions : IsLarge(positions[t])}
           key == [t \in large |-> LargeSortValue(positions[t])]
       IN  \E order \in SortedDescending(large, key) :
               report' = SellLargeReport(positions, order)
    /\ pc' = "done"
    /\ UNCHANGED <<cmd, order_call, wizard, csv, positions, pnlLocals, otherLocals>>

PnlLocals ==
    [positions |-> positions, all_trades |-> all_trades,
     total_buy_cost |-> total_buy_cost, total_sell_proceeds |-> total_sell_proceeds,
     skipped_trades |-> skipped_trades, failed_trades |-> failed_trades]

\* check_pnl_discrepancy: one turn of the loop on an Ok row
PnlRow ==
    /\ cmd = "check_pnl_discrepancy"
    /\ pc = "fold"
    /\ Len(csv) < MaxRows
    /\ \E row \in Rows :
         LET st == PnlApply(PnlLocals, row)
         IN  /\ csv' = Append(csv, row)
             /\ positions' = st.positions
             /\ all_trades' = st.all_trades
             /\ total_buy_cost' = st.total_buy_cost
             /\ total_sell_proceeds' = st.total_sell_proceeds
             /\ skipped_trades' = st.skipped_trades
             /\ failed_trades' = st.failed_trades
    /\ UNCHANGED <<cmd, order_call, wizard, pc, otherLocals, report>>

\* check_pnl_discrepancy: end of the log, totals, P&L and warnings
PnlEnd ==
    /\ cmd = "check_pnl_discrepancy"
    /\ pc = "fold"
    /\ report' = PnlReport(PnlLocals)
    /\ pc' = "done"
    /\ UNCHANGED <<cmd, order_call, wizard, csv, positions, pnlLocals, otherLocals>>

\* close_stale_positions: one turn of the loop on an Ok row
StaleRow ==
    /\ cmd = "close_stale_positions"
    /\ pc = "fold"
    /\ Len(csv) < MaxRows
    /\ \E row \in Rows :
         LET st == StaleApply([positions |-> positions,
                               last_timestamp |-> last_timestamp], row)
         IN  /\ csv' = Append(csv, row)
             /\ positions' = st.positions
             /\ last_timestamp' = st.last_timestamp
    /\ UNCHANGED <<cmd, order_call, wizard, pc, pnlLocals, stats, report>>

\* close_stale_positions: end of the log, ages, filter, sort and print
StaleEnd ==
    /\ cmd = "close_stale_positions"
    /\ pc = "fold"
    /\ LET stale == {t \in DOMAIN positions :
                        IsOpen(positions[t]) /\ IsStale(last_timestamp[t])}
           key == [t \in stale |-> CHOOSE age \in AgeDays(last_timestamp[t]) : TRUE]
       IN  \E order \in SortedDescending(stale, key) :
               report' = StaleReport(positions, last_timestamp, order)
    /\ pc' = "done"
    /\ UNCHANGED <<cmd, order_call, wizard, csv, positions, pnlLocals, otherLocals>>

\* close_stale_positions: end of the log in a build with overflow checks, the
\* age of an open position stamped after now: 'attempt to subtract with overflow'
StalePanic ==
    /\ cmd = "close_stale_positions"
    /\ pc = "fold"
    /\ \E t \in DOMAIN positions :
          IsOpen(positions[t]) /\ SubOverflows(last_timestamp[t])
    /\ pc' = "panic"
    /\ UNCHANGED <<cmd, order_call, wizard, csv, positions, pnlLocals, otherLocals, report>>

\* check_my_stats: one turn of the loop on an Ok row
StatsRow ==
    /\ cmd = "check_my_stats"
    /\ pc = "fold"
    /\ Len(csv) < MaxRows
    /\ \E row \in Rows :
         /\ csv' = Append(csv, row)
         /\ stats' = StatsApply(stats, row)
    /\ UNCHANGED <<cmd, order_call, wizard, pc, positions, pnlLocals, last_timestamp, report>>

\* check_my_stats: end of the log, the statistics are printed
StatsEnd ==
    /\ cmd = "check_my_stats"
    /\ pc = "fold"
    /\ report' = StatsReport(stats)
    /\ pc' = "done"
    /\ UNCHANGED <<cmd, order_call, wizard, csv, positions, pnlLocals, otherLocals>>

Next ==
    \/ ReadErr
    \/ DetailedRow
    \/ DetailedEnd
    \/ SellLargeRow
    \/ SellLargeEnd
    \/ PnlRow
    \/ PnlEnd
    \/ StaleRow
    \/ StaleEnd
    \/ StalePanic
    \/ StatsRow
    \/ StatsEnd

Spec == Init /\ [][Next]_vars

----------------------------------------------------------------------------
(* orders.rs: buy_order, sell_order and buy_limit_order, from the call to  *)
(* the return. A message is a sequence of fragments; `contains` is the     *)
(* presence of the fragment.                                               *)

MaxFragments == 2

Fragments ==
    {"not enough balance", "allowance", "INSUFFICIENT", "insufficient",
     "Insufficient", "timeout"}
Messages == UNION {[1..n -> Fragments] : n \in 0..MaxFragments}

\* PostOrderResponse: only error_msg: Option<String> is looked at
Response(error_msg) == [ok |-> TRUE, error_msg |-> error_msg]
\* the Err of post_order, by its to_string()
PostError(msg) == [ok |-> FALSE, error |-> msg]
PostOutcomes ==
    {Response(NoText)} \cup {Response(Text(m)) : m \in Messages}
        \cup {PostError(m) : m \in Messages}

OrderFunctions == {"buy_order", "sell_order", "buy_limit_order"}

is_insufficient_balance_error(s) ==
    \/ Contains(s, "not enough balance")
    \/ Contains(s, "allowance")
    \/ Contains(s, "INSUFFICIENT")
    \/ Contains(s, "insufficient")

\* the anyhow error each function wraps the message in
BalanceError(fn, msg) ==
    [ok |-> FALSE,
     by |-> IF fn = "buy_order" THEN "buy_balance_error" ELSE "sell_balance_error",
     error |-> msg]

\* a plausible slip in OrderResult: an Ok response is returned without a look
\* at its error_msg
OrderResult_OkUnchecked(fn, post) ==
    IF post.ok THEN [ok |-> TRUE, response |-> post]
    ELSE IF is_insufficient_balance_error(post.error) THEN BalanceError(fn, post.error)
    ELSE [ok |-> FALSE, by |-> "post_order", error |-> post.error]

\* `match authenticated_client.post_order(signed).await { .. }`
OrderResult(fn, post) ==
    IF post.ok THEN
        IF post.error_msg.some /\ is_insufficient_balance_error(post.error_msg.v)
        THEN BalanceError(fn, post.error_msg.v)
        ELSE [ok |-> TRUE, response |-> post]
    ELSE IF is_insufficient_balance_error(post.error) THEN BalanceError(fn, post.error)
    ELSE [ok |-> FALSE, by |-> "post_order", error |-> post.error]

OrderInit ==
    /\ cmd \in OrderFunctions
    /\ pc = "start"
    /\ NothingRead
    /\ order_call = NoOrder
    /\ wizard = NoWizard

botLocals == <<csv, positions, pnlLocals, otherLocals, report>>

\* one of the `?` before post_order returns: the key, the addresses, the
\* authentication, the order builder or the signature failed
OrderFailsEarly ==
    /\ cmd \in OrderFunctions
    /\ pc = "start"
    /\ order_call' = [state |-> "not posted",
                      ret |-> [ok |-> FALSE, by |-> "?", error |-> <<>>]]
    /\ pc' = "returned"
    /\ UNCHANGED <<cmd, wizard, botLocals>>

\* post_order(signed).await completes
PostOrder ==
    /\ cmd \in OrderFunctions
    /\ pc = "start"
    /\ \E outcome \in PostOutcomes : order_call' = [state |-> "posted", post |-> outcome]
    /\ pc' = "posted"
    /\ UNCHANGED <<cmd, wizard, botLocals>>

\* the match on the outcome, and the return
OrderReturn ==
    /\ cmd \in OrderFunctions
    /\ pc = "posted"
    /\ order_call' = [state |-> "posted", post |-> order_call.post,
                      ret |-> OrderResult(cmd, order_call.post)]
    /\ pc' = "returned"
    /\ UNCHANGED <<cmd, wizard, botLocals>>

OrderNext ==
    \/ OrderFailsEarly
    \/ PostOrder
    \/ OrderReturn

OrderSpec == OrderInit /\ [][OrderNext]_vars

----------------------------------------------------------------------------
(* run_setup_wizard: the questions, the overwrite prompt, the backup and   *)
(* the write of .env.  A typed line is a sequence of characters.           *)

MaxTyped == 3

Keys == {"y", "Y", "e", "E", "s", "S", "n", " "}

\* what read_line can leave in `input`: the typed characters and the newline,
\* or the typed characters alone when the input ends without one
Lines ==
    LET typed == UNION {[1..n -> Keys] : n \in 0..MaxTyped}
    IN  typed \cup {Append(t, "\n") : t \in typed}

is_whitespace(c) == c \in {" ", "\n"}

RECURSIVE trim_start(_)
trim_start(s) ==
    IF s # <<>> /\ is_whitespace(Head(s)) THEN trim_start(Tail(s)) ELSE s

RECURSIVE trim_end(_)
trim_end(s) ==
    IF s # <<>> /\ is_whitespace(s[Len(s)])
    THEN trim_end(SubSeq(s, 1, Len(s) - 1))
    ELSE s

\* str::trim
trim(s) == trim_end(trim_start(s))

char_to_lowercase(c) ==
    CASE c = "Y" -> "y"
      [] c = "E" -> "e"
      [] c = "S" -> "s"
      [] OTHER -> c

\* str::to_lowercase
to_lowercase(s) == [i \in 1..Len(s) |-> char_to_lowercase(s[i])]

\* prompt_input, on the line read_line has read
prompt_input(line) == trim(line)

\* a plausible slip in Confirms: Enter alone takes yes as the default
Confirms_EnterIsYes(overwrite) ==
    \/ overwrite = <<>>
    \/ ~(to_lowercase(overwrite) # <<"y">> /\ to_lowercase(overwrite) # <<"y", "e", "s">>)

\* the negation of the condition under which the wizard returns at the prompt
Confirms(overwrite) ==
    ~(to_lowercase(overwrite) # <<"y">> /\ to_lowercase(overwrite) # <<"y", "e", "s">>)

\* .env.example: absent, or present with so many lines (none of them empty)
ExampleFiles ==
    {[exists |-> FALSE, lines |-> 0]}
        \cup {[exists |-> TRUE, lines |-> n] : n \in {46, 47, 82}}

\* the number of lines of .env.example kept in preserved_section
PreservedLines(lines) ==
    IF lines > 81 THEN 36
    ELSE IF lines > 46 THEN lines - 46
    ELSE 0

\* the content the wizard builds
EnvContent(preserved) == [kind |-> "new", preserved |-> preserved]

WizardInit ==
    /\ cmd = "setup"
    /\ pc = "questions"
    /\ NothingRead
    /\ order_call = NoOrder
    /\ \E env \in {[kind |-> "absent"], [kind |-> "old"]}, example \in ExampleFiles :
         wizard = WizardStart(env, example)

wizardFrame == <<cmd, order_call, botLocals>>

\* steps 1 to 6: every question is answered, or a read of stdin fails and `?`
\* returns the error
WizardQuestions ==
    /\ cmd = "setup"
    /\ pc = "questions"
    /\ pc' \in {"example", "failed"}
    /\ UNCHANGED <<wizard, wizardFrame>>

\* the preserved section is read from .env.example, when it exists and can be
\* read; then `env_path.exists()` chooses between the prompt and the write
WizardReadExample ==
    /\ cmd = "setup"
    /\ pc = "example"
    /\ \E read_ok \in BOOLEAN :
         wizard' = [wizard EXCEPT !.preserved_section =
                       IF wizard.example.exists /\ read_ok
                       THEN PreservedLines(wizard.example.lines) ELSE 0]
    /\ pc' = IF wizard.env.kind # "absent" THEN "prompt" ELSE "write"
    /\ UNCHANGED wizardFrame

\* the overwrite prompt is answered: the wizard returns unless the answer
\* confirms
WizardOverwritePrompt ==
    /\ cmd = "setup"
    /\ pc = "prompt"
    /\ \E line \in Lines :
         LET overwrite == prompt_input(line)
         IN  /\ wizard' = [wizard EXCEPT !.asked = TRUE, !.line = line,
                                         !.overwrite = overwrite]
             /\ pc' = IF Confirms(overwrite) THEN "backup" ELSE "cancelled"
    /\ UNCHANGED wizardFrame

\* the read of the answer fails and `?` returns the error
WizardPromptFails ==
    /\ cmd = "setup"
    /\ pc = "prompt"
    /\ pc' = "failed"
    /\ UNCHANGED <<wizard, wizardFrame>>

\* `fs::copy(env_path, &backup_path)`, whose error is dropped: the copy is
\* whole, or missing, or cut short
WizardBackup ==
    /\ cmd = "setup"
    /\ pc = "backup"
    /\ \E copy \in {wizard.env, [kind |-> "absent"], [kind |-> "truncated"]} :
         wizard' = [wizard EXCEPT !.backup = copy,
                                  !.events = Append(@, "copy")]
    /\ pc' = "write"
    /\ UNCHANGED wizardFrame

\* `fs::write(env_path, env_content)?`: the file is written, or cannot be
\* opened and stays as it is, or is cut short after it was opened
WizardWrite ==
    /\ cmd = "setup"
    /\ pc = "write"
    /\ \/ /\ wizard' = [wizard EXCEPT !.env = EnvContent(wizard.preserved_section),
                                       !.events = Append(@, "write")]
          /\ pc' = "done"
       \/ /\ \E left \in {wizard.env, [kind |-> "truncated"]} :
               wizard' = [wizard EXCEPT !.env = left,
                                        !.events = Append(@, "write")]
          /\ pc' = "failed"
    /\ UNCHANGED wizardFrame

WizardNext ==
    \/ WizardQuestions
    \/ WizardReadExample
    \/ WizardOverwritePrompt
    \/ WizardPromptFails
    \/ WizardBackup
    \/ WizardWrite

WizardSpec == WizardInit /\ [][WizardNext]_vars

----------------------------------------------------------------------------
(* check_my_stats on logs long enough to fill recent_trades: the rows are  *)
(* taken from two kinds only.                                              *)

MaxLongRows == 11

LongRows ==
    { CsvRow(BUY_FILL,  Num(100000), Num(50), ST_OK, Num(5000000), Id("t1")),
      CsvRow(SELL_FILL, Num(50000),  Num(70), ST_SKIPPED, Num(3500000), Id("t1")) }

LongInit ==
    /\ cmd = "check_my_stats"
    /\ pc = "fold"
    /\ NothingRead
    /\ order_call = NoOrder
    /\ wizard = NoWizard

\* check_my_stats: one turn of the loop on an Ok row of a long log
StatsLongRow ==
    /\ cmd = "check_my_stats"
    /\ pc = "fold"
    /\ Len(csv) < MaxLongRows
    /\ \E row \in LongRows :
         /\ csv' = Append(csv, row)
         /\ stats' = StatsApply(stats, row)
    /\ UNCHANGED <<cmd, order_call, wizard, pc, positions, pnlLocals, last_timestamp, report>>

LongNext ==
    \/ StatsLongRow
    \/ StatsEnd

LongSpec == LongInit /\ [][LongNext]_vars

----------------------------------------------------------------------------
(* The log as the specification reads it: fills, their instrument,         *)
(* direction and values, taken from csv and not from the folds above.      *)

RECURSIVE SeqSum(_)
SeqSum(q) == IF Len(q) = 0 THEN 0 ELSE q[1] + SeqSum(Tail(q))

Last(q) == q[Len(q)]
MaxOf(S) == CHOOSE m \in S : \A x \in S : x <= m

FillStatusHas(r, w) == r.order_status.some /\ Contains(r.order_status.v, w)
FillIsSkipped(r) == FillStatusHas(r, "SKIPPED")
FillIsFailed(r) ==
    ~FillIsSkipped(r) /\ (FillStatusHas(r, "EXEC_FAIL") \/ FillStatusHas(r, "error"))
FillIsBuy(r) == r.direction.some /\ Contains(r.direction.v, "BUY")
FillIsSell(r) == r.direction.some /\ ~FillIsBuy(r) /\ Contains(r.direction.v, "SELL")
FillInstrument(r) == IF r.clob_asset_id.some THEN r.clob_asset_id.v ELSE "unknown"
\* a numeric field: the number it holds, 0.0 when missing or unparsable
FillNumber(col) == IF col.some /\ col.ok THEN col.val ELSE 0

\* the parsed records of q, and the fills among them that are not skipped
ParsedIn(q) == {i \in 1..Len(q) : q[i].ok}
FillsIn(q) == {i \in ParsedIn(q) : ~FillIsSkipped(q[i])}
FillsOfIn(q, tok) == {i \in FillsIn(q) : FillInstrument(q[i]) = tok}
BuysOfIn(q, tok) == {i \in FillsOfIn(q, tok) : FillIsBuy(q[i])}
SellsOfIn(q, tok) == {i \in FillsOfIn(q, tok) : FillIsSell(q[i])}
SharesOver(q, S) == SeqSum([i \in 1..Len(q) |-> IF i \in S THEN FillNumber(q[i].shares) ELSE 0])
UsdOver(q, S) == SeqSum([i \in 1..Len(q) |-> IF i \in S THEN FillNumber(q[i].usd_value) ELSE 0])

Instruments == {"t1", "t2", "unknown"}
ReadARow == Len(csv') = Len(csv) + 1 /\ Last(csv').ok
PnlDone == cmd = "check_pnl_discrepancy" /\ pc = "done" /\ report.stage = "full"

\* the six rows of the scenarios
BuyAt50 == At(DaysAgo(40), CsvRow(BUY_FILL, Num(100000), Num(50), ST_OK, Num(5000000), Id("t1")))
BuyAt60 == At(DaysAgo(30), CsvRow(BUY_FILL, Num(100000), Num(60), ST_OK, Num(6000000), Id("t1")))
SellAt70 ==
    At(Num(now - 30 * seconds_per_day + 1),
       CsvRow(SELL_FILL, Num(50000), Num(70), ST_OK, Num(3500000), Id("t1")))
SkippedBuy == CsvRow(BUY_FILL, Num(100000), Num(60), ST_SKIPPED, Num(6000000), Id("t1"))
FailedBuy == CsvRow(BUY_FILL, Num(100000), Num(50), ST_EXEC_FAIL, Num(5000000), Id("t1"))
TinyBuy == CsvRow(BUY_FILL, Num(5), Num(10), ST_OK, Num(50), Id("t2"))

----------------------------------------------------------------------------
(* C1: in check_pnl_discrepancy the printed total P&L, realized +          *)
(* unrealized, equals total_sell_proceeds + current value of the open      *)
(* positions - total_buy_cost, for every log.                              *)
C1_AccountingIdentity ==
    PnlDone =>
        /\ report.total_pnl = report.realized_pnl + report.unrealized_pnl
        /\ report.total_pnl =
              total_sell_proceeds + report.total_current_value - total_buy_cost

\* Scenario B has been reconciled: an open cost basis of $7.50, $3.50 sold
C1_Witness ==
    /\ PnlDone
    /\ csv = <<BuyAt50, BuyAt60, SellAt70>>
    /\ report.total_cost_basis = 7500000
    /\ total_sell_proceeds = 3500000
    /\ report.total_pnl = 3500000 + 7500000 - 11000000

(* C2: after the fold of check_positions_detailed, every instrument's      *)
(* net shares, cost basis, buy count and sell count are the sums over its  *)
(* Buy fills minus the sums over its Sell fills that are not skipped, a    *)
(* numeric field that is missing or unparsable counting as 0.              *)
C2_LedgerIsSumOfFills ==
    cmd = "check_positions_detailed" =>
        /\ DOMAIN positions = {t \in Instruments : FillsOfIn(csv, t) # {}}
        /\ \A t \in DOMAIN positions :
             /\ positions[t].total_shares =
                  SharesOver(csv, BuysOfIn(csv, t)) - SharesOver(csv, SellsOfIn(csv, t))
             /\ positions[t].total_cost =
                  UsdOver(csv, BuysOfIn(csv, t)) - UsdOver(csv, SellsOfIn(csv, t))
             /\ positions[t].buy_count = Cardinality(BuysOfIn(csv, t))
             /\ positions[t].sell_count = Cardinality(SellsOfIn(csv, t))

\* Scenario B: Buy 10 @0.50, Buy 10 @0.60, Sell 5 @0.70 gives 15 shares, $7.50
C2_Witness ==
    /\ cmd = "check_positions_detailed"
    /\ csv = <<BuyAt50, BuyAt60, SellAt70>>
    /\ positions["t1"].total_shares = 150000
    /\ positions["t1"].total_cost = 7500000
    /\ positions["t1"].buy_count = 2
    /\ positions["t1"].sell_count = 1

(* C3: reading a row whose order_status contains SKIPPED changes no        *)
(* position and creates none, in every command; in check_pnl_discrepancy   *)
(* it adds one to skipped_trades and one to the number of trades, and      *)
(* nothing to the buy and sell totals.                                     *)
C3_SkipInvariance ==
    [][(ReadARow /\ FillIsSkipped(Last(csv'))) =>
          /\ positions' = positions
          /\ cmd = "check_pnl_discrepancy" =>
               /\ skipped_trades' = skipped_trades + 1
               /\ Len(all_trades') = Len(all_trades) + 1
               /\ total_buy_cost' = total_buy_cost
               /\ total_sell_proceeds' = total_sell_proceeds
               /\ failed_trades' = failed_trades]_vars

\* a skipped Buy of t1 was read after a Buy of t1: one position, one skip, two trades
C3_Witness ==
    /\ cmd = "check_pnl_discrepancy"
    /\ csv = <<BuyAt50, SkippedBuy>>
    /\ positions["t1"].total_shares = 100000
    /\ positions["t1"].buy_count = 1
    /\ skipped_trades = 1
    /\ Len(all_trades) = 2

(* C4: after the fold, in every command, every instrument's last_price is  *)
(* the price_per_share of its most recent fill that is not skipped,        *)
(* whatever the direction of that fill.                                    *)
C4_LastPriceIsLatestFill ==
    \A t \in Instruments :
        FillsOfIn(csv, t) # {} =>
            /\ t \in DOMAIN positions
            /\ positions[t].last_price =
                 FillNumber(csv[MaxOf(FillsOfIn(csv, t))].price_per_share)

(* C5: in sell_large_positions, the log with two fills of one instrument   *)
(* swapped, both not skipped and priced differently, folds to a ledger     *)
(* whose last_price for the instrument is the price of the fill that is    *)
(* now its last, and whose shares, cost basis and counts are those of the  *)
(* log as read.                                                            *)
Swap(q, i, j) == [k \in 1..Len(q) |-> IF k = i THEN q[j] ELSE IF k = j THEN q[i] ELSE q[k]]
FillHasPrice(r) == r.price_per_share.some /\ r.price_per_share.ok

C5_OrderSensitivity ==
    (cmd = "sell_large_positions" /\ pc = "fold") =>
        \A i, j \in FillsIn(csv) :
            ( /\ i < j
              /\ FillInstrument(csv[i]) = FillInstrument(csv[j])
              /\ FillHasPrice(csv[i]) /\ FillHasPrice(csv[j])
              /\ csv[i].price_per_share.val # csv[j].price_per_share.val ) =>
            LET swapped == Swap(csv, i, j)
                other == SellLargeFold(swapped)
                t == FillInstrument(csv[i])
            IN  /\ t \in DOMAIN other
                /\ other[t].last_price =
                     FillNumber(swapped[MaxOf(FillsOfIn(swapped, t))].price_per_share)
                /\ DOMAIN other = DOMAIN positions
                /\ \A u \in DOMAIN other :
                     /\ other[u].total_shares = positions[u].total_shares
                     /\ other[u].total_cost = positions[u].total_cost
                     /\ other[u].buy_count = positions[u].buy_count
                     /\ other[u].sell_count = positions[u].sell_count

(* C6: in check_pnl_discrepancy total_buy_cost and total_sell_proceeds are *)
(* the sums of usd_value over all Buy and all Sell fills that are not      *)
(* skipped, failed fills included, and every such fill is in the position  *)
(* of its instrument.                                                      *)
C6_TotalsCoverFailedFills ==
    cmd = "check_pnl_discrepancy" =>
        /\ total_buy_cost = UsdOver(csv, {i \in FillsIn(csv) : FillIsBuy(csv[i])})
        /\ total_sell_proceeds = UsdOver(csv, {i \in FillsIn(csv) : FillIsSell(csv[i])})
        /\ \A t \in Instruments :
             FillsOfIn(csv, t) # {} =>
                 /\ t \in DOMAIN positions
                 /\ positions[t].total_shares =
                      SharesOver(csv, BuysOfIn(csv, t)) - SharesOver(csv, SellsOfIn(csv, t))

(* C7: a position is open iff its shares exceed 0.001 strictly.  The       *)
(* positions at or below 0.001 are not shown, and add nothing to the count *)
(* of open positions, the open cost basis, the open current value, or the  *)
(* large, dust, negative cost basis and zero price counts.                 *)
OpenSet == {t \in DOMAIN positions : positions[t].total_shares > 10}
ShownTokens == {report.shown[i].token_id : i \in 1..Len(report.shown)}

C7_ClosedAtOrBelowEpsilon ==
    /\ (cmd = "check_positions_detailed" /\ pc = "done") =>
          ShownTokens = OpenSet /\ Len(report.shown) = Cardinality(OpenSet)
    /\ (cmd = "sell_large_positions" /\ pc = "done") => ShownTokens \subseteq OpenSet
    /\ PnlDone =>
          /\ report.open_positions_count = Cardinality(OpenSet)
          /\ report.total_cost_basis =
                SetSum([t \in OpenSet |-> positions[t].total_cost], OpenSet)
          /\ report.total_current_value =
                SetSum([t \in OpenSet |->
                           Times(positions[t].total_shares, PnlPrice(positions[t]))], OpenSet)
          /\ report.positions_with_zero_price =
                Cardinality({t \in OpenSet : IsZeroPrice(PnlPrice(positions[t]))})
          /\ report.dust_positions = Cardinality({t \in OpenSet : IsDust(positions[t])})
          /\ report.negative_cost =
                Cardinality({t \in OpenSet : IsNegativeCost(positions[t])})

\* t2 holds exactly 0.001 share and t1 holds 10: one open position, worth t1's $5
C7_Witness ==
    /\ PnlDone
    /\ csv = <<TinyBuy, TinyBuy, BuyAt50>>
    /\ positions["t2"].total_shares = 10
    /\ report.open_positions_count = 1
    /\ report.total_cost_basis = 5000000

(* C8: every value of an open position is shares x effective price, the    *)
(* effective price being last_price when that is > 0 and cost basis /      *)
(* shares otherwise: the value of a printed line, the key the lines are    *)
(* sorted by, and the total current value of the open positions.           *)
ClaimedPrice(pos) ==
    IF pos.last_price > 0 THEN <<pos.last_price, 1>>
    ELSE <<pos.total_cost, pos.total_shares>>
ClaimedValue(pos) == Times(pos.total_shares, ClaimedPrice(pos))

C8_SameEffectivePrice ==
    /\ (pc = "done" /\ cmd \in {"check_positions_detailed", "sell_large_positions"}) =>
          /\ \A i \in 1..Len(report.shown) :
               report.shown[i].current_value =
                   ClaimedValue(positions[report.shown[i].token_id])
          /\ \A i, j \in 1..Len(report.shown) :
               i < j => ClaimedValue(positions[report.shown[i].token_id])
                          >= ClaimedValue(positions[report.shown[j].token_id])
    /\ PnlDone =>
          report.total_current_value =
              SetSum([t \in OpenSet |-> ClaimedValue(positions[t])], OpenSet)

(* C9: in check_pnl_discrepancy an open position with last_price = 0 and   *)
(* a cost basis > 0 is counted as a zero price position and raises the     *)
(* zero price warning, and its value is cost basis / shares x shares.      *)
ZeroLastPrice ==
    {t \in OpenSet : positions[t].last_price = 0 /\ positions[t].total_cost > 0}

C9_ZeroPriceLabelled ==
    (PnlDone /\ ZeroLastPrice # {}) =>
        /\ report.positions_with_zero_price >= Cardinality(ZeroLastPrice)
        /\ "zero price" \in report.issues
        /\ report.total_current_value =
              SetSum([t \in OpenSet |-> ClaimedValue(positions[t])], OpenSet)

(* C10: check_pnl_discrepancy warns of a high skip rate iff more than half *)
(* of the parsed records, skipped and failed ones included, are skipped.   *)
SkippedIn(q) == {i \in ParsedIn(q) : FillIsSkipped(q[i])}

C10_HighSkipRateOverHalf ==
    (cmd = "check_pnl_discrepancy" /\ pc = "done") =>
        ("high skip rate" \in report.issues
            <=> 2 * Cardinality(SkippedIn(csv)) > Cardinality(ParsedIn(csv)))

\* two of three records skipped, the third failed: the warning is there
C10_Witness ==
    /\ PnlDone
    /\ csv = <<SkippedBuy, FailedBuy, SkippedBuy>>
    /\ skipped_trades = 2
    /\ failed_trades = 1
    /\ "high skip rate" \in report.issues

(* C11: when the fold of check_pnl_discrepancy leaves an instrument with   *)
(* less than zero shares, the value is kept as the signed sum of its fills *)
(* and the report raises at least one warning: it never ends on "no major  *)
(* discrepancies".                                                         *)
Oversold == {t \in DOMAIN positions : positions[t].total_shares < 0}
ExecutedOfIn(q, tok) == {i \in FillsOfIn(q, tok) : ~FillIsFailed(q[i])}

C11_NegativeSharesSurfaced ==
    (PnlDone /\ Oversold # {}) =>
        /\ \A t \in Oversold :
             positions[t].total_shares =
                 SharesOver(csv, ExecutedOfIn(csv, t) \cap BuysOfIn(csv, t))
                   - SharesOver(csv, ExecutedOfIn(csv, t) \cap SellsOfIn(csv, t))
        /\ report.issues # {}

(* C12: in close_stale_positions an open position is listed as stale iff   *)
(* the most recent fill of its instrument that is not skipped has a        *)
(* timestamp that parses and is 30 whole days old or more; an open         *)
(* position whose most recent fill has no parsable timestamp is counted as *)
(* without timestamp, is not listed, and is in the total of open           *)
(* positions.                                                              *)
StaleDone == cmd = "close_stale_positions" /\ pc = "done"
LastFillOf(q, tok) == q[MaxOf(FillsOfIn(q, tok))]
FillAge(r) ==
    IF r.timestamp.some /\ r.timestamp.ok
    THEN {(now - r.timestamp.val) \div 86400} ELSE {}
ListedStale == {report.shown[i].token_id : i \in 1..Len(report.shown)}

C12_StaleByLatestFill ==
    StaleDone =>
        /\ \A t \in OpenSet :
             t \in ListedStale <=> \E age \in FillAge(LastFillOf(csv, t)) : age >= 30
        /\ report.positions_without_timestamp =
              Cardinality({t \in OpenSet : FillAge(LastFillOf(csv, t)) = {}})
        /\ report.open_positions_count = Cardinality(OpenSet)

(* C13: sell_large_positions lists a position iff it is open and its       *)
(* current value, shares x effective price, is 50.0 USD or more; a value   *)
(* of exactly 50.0 is listed and a closed position never is.               *)
BigBuy == At(BadNum, CsvRow(BUY_FILL, Num(1000000), Num(50), ST_OK, Num(50000000), Id("t2")))

C13_LargeIffOpenAndWorth50 ==
    (cmd = "sell_large_positions" /\ pc = "done") =>
        ShownTokens = {t \in OpenSet : ClaimedValue(positions[t]) >= 50000000}

\* 100 shares bought at 0.50 are worth exactly $50: listed; t1, sold out, is not
C13_Witness ==
    /\ cmd = "sell_large_positions"
    /\ pc = "done"
    /\ csv = <<BigBuy, SellAt70>>
    /\ positions["t1"].total_shares < 0
    /\ ShownTokens = {"t2"}
    /\ report.shown[1].current_value = 50000000

(* C14: check_pnl_discrepancy counts a position as dust iff it holds more  *)
(* than 0.001 and less than 0.1 share and its value at the effective price *)
(* (last_price if > 0, else cost basis / shares) is below 0.10 USD; the    *)
(* dust warning is raised iff that count is not zero.                      *)
ClaimedDust ==
    {t \in OpenSet : positions[t].total_shares < 1000
                       /\ ClaimedValue(positions[t]) < 100000}

C14_DustByEffectivePrice ==
    PnlDone =>
        /\ report.dust_positions = Cardinality(ClaimedDust)
        /\ "dust" \in report.issues <=> ClaimedDust # {}

(* C15: check_pnl_discrepancy raises the negative cost basis warning iff   *)
(* at least one open position has a cost basis below zero, whatever the    *)
(* other labels of that position are; closed positions never raise it.     *)
BuyNoUsd == CsvRow(BUY_FILL, Num(100000), Num(50), ST_OK, NoNum, Id("t1"))
NegativeBasis == {t \in OpenSet : positions[t].total_cost < 0}

C15_NegativeBasisIffOpenBelowZero ==
    (cmd = "check_pnl_discrepancy" /\ pc = "done") =>
        /\ "negative cost basis" \in report.issues <=> NegativeBasis # {}
        /\ report.negative_cost = Cardinality(NegativeBasis)

\* 10 shares bought for a cost read as 0, 5 sold for $3.50: open, basis -$3.50
C15_Witness ==
    /\ PnlDone
    /\ csv = <<BuyNoUsd, SellAt70>>
    /\ positions["t1"].total_shares = 50000
    /\ positions["t1"].total_cost = -3500000
    /\ "negative cost basis" \in report.issues

(* C16: the lines of check_positions_detailed and of sell_large_positions  *)
(* are in descending order of their current value, and two lines with the  *)
(* same current value are in the order of their instrument ids.            *)
IdRank(t) == IF t = "t1" THEN 1 ELSE IF t = "t2" THEN 2 ELSE 3

C16_RankingByValueThenId ==
    (pc = "done" /\ cmd \in {"check_positions_detailed", "sell_large_positions"}) =>
        \A i, j \in 1..Len(report.shown) :
            i < j =>
                \/ report.shown[i].current_value > report.shown[j].current_value
                \/ /\ report.shown[i].current_value = report.shown[j].current_value
                   /\ IdRank(report.shown[i].token_id) < IdRank(report.shown[j].token_id)

(* C17: in every report command, reading a parsed record that is not       *)
(* skipped (nor failed), is a Buy or a Sell and has exactly one of shares, *)
(* price_per_share, usd_value and instrument id missing or unparsable      *)
(* applies it: the position of its instrument exists afterwards and has    *)
(* one more buy or sell than before.                                       *)
BadNumber(col) == ~(col.some /\ col.ok)
BadFields(r) ==
    (IF BadNumber(r.shares) THEN 1 ELSE 0) + (IF BadNumber(r.price_per_share) THEN 1 ELSE 0)
      + (IF BadNumber(r.usd_value) THEN 1 ELSE 0) + (IF r.clob_asset_id.some THEN 0 ELSE 1)
FillCount(ps, tok) ==
    IF tok \in DOMAIN ps THEN ps[tok].buy_count + ps[tok].sell_count ELSE 0
ReportCommands ==
    {"check_positions_detailed", "check_pnl_discrepancy", "sell_large_positions",
     "close_stale_positions"}

C17_OneBadFieldStillApplied ==
    [][(/\ cmd \in ReportCommands
        /\ ReadARow
        /\ BadFields(Last(csv')) = 1
        /\ ~FillIsSkipped(Last(csv'))
        /\ ~FillIsFailed(Last(csv'))
        /\ FillIsBuy(Last(csv')) \/ FillIsSell(Last(csv')))
          => FillCount(positions', FillInstrument(Last(csv')))
               = FillCount(positions, FillInstrument(Last(csv'))) + 1]_vars

(* C18: in check_positions_detailed and check_pnl_discrepancy, reading a   *)
(* Buy or Sell that is neither skipped nor failed, has no usd_value and    *)
(* has shares and price_per_share that parse, moves the cost basis of its  *)
(* instrument by shares x price_per_share (up for a Buy, down for a Sell), *)
(* and check_pnl_discrepancy moves total_buy_cost or total_sell_proceeds   *)
(* by the same amount.                                                     *)
CostOf(ps, tok) == IF tok \in DOMAIN ps THEN ps[tok].total_cost ELSE 0
DerivedUsd(r) == r.shares.val * r.price_per_share.val
Signed(r, x) == IF FillIsBuy(r) THEN x ELSE -x

C18_UsdValueDerived ==
    [][(/\ cmd \in {"check_positions_detailed", "check_pnl_discrepancy"}
        /\ ReadARow
        /\ ~Last(csv').usd_value.some
        /\ ~BadNumber(Last(csv').shares)
        /\ ~BadNumber(Last(csv').price_per_share)
        /\ ~FillIsSkipped(Last(csv'))
        /\ ~FillIsFailed(Last(csv'))
        /\ FillIsBuy(Last(csv')) \/ FillIsSell(Last(csv')))
          => /\ CostOf(positions', FillInstrument(Last(csv')))
                  = CostOf(positions, FillInstrument(Last(csv')))
                      + Signed(Last(csv'), DerivedUsd(Last(csv')))
             /\ cmd = "check_pnl_discrepancy" =>
                  (total_buy_cost' - total_buy_cost) - (total_sell_proceeds' - total_sell_proceeds)
                      = Signed(Last(csv'), DerivedUsd(Last(csv')))]_vars

(* C19: every parsed record is Skipped, Failed, Executed or Unknown by its *)
(* order_status: Skipped if it contains SKIPPED, else Failed if it         *)
(* contains EXEC_FAIL or error, else Executed, and Unknown when the field  *)
(* is missing. check_pnl_discrepancy counts the Skipped and the Failed as  *)
(* such, and the successful trades that it and check_my_stats print are    *)
(* the Executed ones, the Unknown left out.                                *)
FailedIn(q) == {i \in ParsedIn(q) : FillIsFailed(q[i])}
UnknownIn(q) == {i \in ParsedIn(q) : ~q[i].order_status.some}
ExecutedIn(q) == ParsedIn(q) \ (SkippedIn(q) \cup FailedIn(q) \cup UnknownIn(q))

C19_StatusClassification ==
    /\ PnlDone =>
          /\ skipped_trades = Cardinality(SkippedIn(csv))
          /\ failed_trades = Cardinality(FailedIn(csv))
          /\ report.successful_trades = Cardinality(ExecutedIn(csv))
    /\ (cmd = "check_my_stats" /\ pc = "done") =>
          report.successful_trades = Cardinality(ExecutedIn(csv))

(* C20: a record that the reader cannot interpret is skipped and counted:  *)
(* reading it leaves every position as it was, and it changes some counter *)
(* of the command, so that the number of such records can be told from     *)
(* what the command holds and prints (csv, the record of what was read, is *)
(* not part of that).                                                      *)
ReadADefect == Len(csv') = Len(csv) + 1 /\ ~Last(csv').ok

C20_DefectSkippedAndCounted ==
    [][ReadADefect =>
          /\ positions' = positions
          /\ <<pnlLocals, otherLocals, report>>' # <<pnlLocals, otherLocals, report>>]_vars

(* C21: no command ends on a fatal error, and close_stale_positions lists  *)
(* as stale only positions whose stored timestamp is 30 days or more       *)
(* before now: a timestamp later than now aborts nothing and gives no      *)
(* wrapped-around age.                                                     *)
C21_NoAbortNoWrappedAge ==
    /\ pc # "panic"
    /\ StaleDone =>
          \A t \in ListedStale :
              now - last_timestamp[t].val >= 30 * 86400

(* C22: the labels of a position are a function of its state, the          *)
(* thresholds and now, and of nothing else: the counts and lists of the    *)
(* reports are those obtained by labelling each position from its own      *)
(* fields, and two instruments in the same state get the same labels.      *)
FutureBuy ==
    At(Num(now + 86400), CsvRow(BUY_FILL, Num(100000), Num(50), ST_OK, Num(5000000), Id("t2")))
StateOf(ps, t) ==
    <<ps[t].total_shares, ps[t].total_cost, ps[t].last_price, ps[t].buy_count,
      ps[t].sell_count>>
LabelOpen(pos) == pos.total_shares > 10
LabelZeroPrice(pos) ==
    LabelOpen(pos) /\ pos.last_price <= 0 /\ pos.total_cost = 0
LabelDust(pos) ==
    LabelOpen(pos) /\ pos.total_shares < 1000 /\ pos.total_shares * pos.last_price < 100000
LabelNegativeBasis(pos) == LabelOpen(pos) /\ pos.total_cost < 0
LabelStale(ts) == ts.some /\ ts.ok /\ (ts.val > now \/ now - ts.val >= 30 * 86400)
Labelled(L(_)) == {t \in DOMAIN positions : L(positions[t])}

C22_LabelsDependOnStateOnly ==
    /\ PnlDone =>
          /\ report.open_positions_count = Cardinality(Labelled(LabelOpen))
          /\ report.positions_with_zero_price = Cardinality(Labelled(LabelZeroPrice))
          /\ report.dust_positions = Cardinality(Labelled(LabelDust))
          /\ report.negative_cost = Cardinality(Labelled(LabelNegativeBasis))
    /\ StaleDone =>
          ListedStale = {t \in Labelled(LabelOpen) : LabelStale(last_timestamp[t])}
    /\ (cmd = "check_positions_detailed" /\ pc = "done") =>
          \A t, u \in DOMAIN positions :
              StateOf(positions, t) = StateOf(positions, u)
                  => (t \in ShownTokens <=> u \in ShownTokens)

\* t1 and t2 are in the same state after one buy each, a skipped record lies
\* between them: both are open, neither is dust
C22_Witness ==
    /\ PnlDone
    /\ csv = <<BuyAt50, SkippedBuy, FutureBuy>>
    /\ StateOf(positions, "t1") = StateOf(positions, "t2")
    /\ skipped_trades = 1
    /\ report.open_positions_count = 2
    /\ report.dust_positions = 0

CancelRow == CsvRow(OTHER_DIR, Num(100000), Num(70), ST_OK, Num(7000000), Id("t1"))
Quantities(ps, t) ==
    IF t \in DOMAIN ps
    THEN <<ps[t].total_shares, ps[t].total_cost, ps[t].buy_count, ps[t].sell_count>>
    ELSE <<0, 0, 0, 0>>

C24_UnknownDirectionCountedOnly ==
    [][(/\ ReadARow
        /\ ~FillIsSkipped(Last(csv'))
        /\ ~FillIsBuy(Last(csv'))
        /\ ~FillIsSell(Last(csv')))
          => /\ \A t \in Instruments : Quantities(positions', t) = Quantities(positions, t)
             /\ total_buy_cost' = total_buy_cost
             /\ total_sell_proceeds' = total_sell_proceeds
             /\ cmd = "check_pnl_discrepancy" => Len(all_trades') = Len(all_trades) + 1
             /\ cmd = "check_my_stats" => stats'.total_trades = stats.total_trades + 1]_vars

\* a buy, then a record of direction CANCEL: two trades, the position of one buy
C24_Witness ==
    /\ PnlDone
    /\ csv = <<BuyAt50, CancelRow>>
    /\ Len(all_trades) = 2
    /\ Quantities(positions, "t1") = <<100000, 5000000, 1, 0>>
    /\ total_buy_cost = 5000000
    /\ total_sell_proceeds = 0

(* C25: in check_positions_detailed and check_pnl_discrepancy the set of   *)
(* instruments in the ledger only grows: no step removes an entry, and     *)
(* reading a record that is not skipped leaves an entry for its            *)
(* instrument, so that an instrument whose shares return to 0 is still in  *)
(* the ledger when the fold ends.                                          *)
C25_LedgerOnlyGrows ==
    [][(cmd = "check_positions_detailed" \/ cmd = "check_pnl_discrepancy") =>
          /\ DOMAIN positions \subseteq DOMAIN positions'
          /\ (ReadARow /\ ~FillIsSkipped(Last(csv')))
                => FillInstrument(Last(csv')) \in DOMAIN positions']_vars

(* C26: check_pnl_discrepancy raises the large unrealized loss warning iff *)
(* the unrealized P&L, the value of the open positions at their effective  *)
(* price (the price of the latest fill that is not skipped, or cost basis  *)
(* / shares when that is 0) minus their cost basis, is below -10.0 USD,    *)
(* and not at -10.0 or above.                                              *)
LatestPrice(t) == FillNumber(csv[MaxOf(FillsOfIn(csv, t))].price_per_share)
ValueAtLatest(t) ==
    IF LatestPrice(t) > 0 THEN positions[t].total_shares * LatestPrice(t)
    ELSE positions[t].total_cost
ClaimedUnrealized ==
    SetSum([t \in OpenSet |-> ValueAtLatest(t) - positions[t].total_cost], OpenSet)

C26_LargeLossBelowMinusTen ==
    PnlDone =>
        ("unrealized losses" \in report.issues <=> ClaimedUnrealized < -10000000)

(* C27: for one log, the folds of check_positions_detailed,                *)
(* check_pnl_discrepancy, sell_large_positions, close_stale_positions,     *)
(* close_resolved_positions and redeem_resolved_positions leave the same   *)
(* open instruments, each with the same shares, cost basis and last_price. *)
OpenView(ps) ==
    [t \in {u \in DOMAIN ps : ps[u].total_shares > 10} |->
        <<ps[t].total_shares, ps[t].total_cost, ps[t].last_price>>]

C27_SixFoldsAgree ==
    LET views == {OpenView(DetailedFold(csv)), OpenView(PnlFold(csv)),
                  OpenView(SellLargeFold(csv)), OpenView(StaleFold(csv)),
                  OpenView(ResolvedFold(csv)), OpenView(RedeemFold(csv))}
    IN  Cardinality(views) = 1

(* C28: buy_order, sell_order and buy_limit_order return an error whenever *)
(* post_order yields a message that indicates insufficient balance or      *)
(* allowance, in the Err of the call or in the error_msg of an Ok          *)
(* response; in every other case they return what post_order returned, an  *)
(* Ok response as Ok and any other failure as Err.                         *)
BalanceWords == {"not enough balance", "allowance", "INSUFFICIENT", "insufficient"}
HasBalanceWord(m) == \E i \in 1..Len(m) : m[i] \in BalanceWords
PostedMessage(post) ==
    IF ~post.ok THEN post.error
    ELSE IF post.error_msg.some THEN post.error_msg.v ELSE <<>>
Returned == cmd \in OrderFunctions /\ pc = "returned" /\ order_call.state = "posted"

C28_InsufficientBalanceIsErr ==
    Returned =>
        IF HasBalanceWord(PostedMessage(order_call.post))
        THEN ~order_call.ret.ok /\ order_call.ret.error = PostedMessage(order_call.post)
        ELSE IF order_call.post.ok
             THEN order_call.ret.ok /\ order_call.ret.response = order_call.post
             ELSE ~order_call.ret.ok /\ order_call.ret.by = "post_order"
                    /\ order_call.ret.error = order_call.post.error

\* post_order answered Ok with error_msg "not enough balance": buy_limit_order
\* returned Err
C28_Witness ==
    /\ cmd = "buy_limit_order"
    /\ pc = "returned"
    /\ order_call.state = "posted"
    /\ order_call.post = Response(Text(<<"not enough balance">>))
    /\ ~order_call.ret.ok

(* C29: in check_my_stats, after n parsed rows recent_trades holds the     *)
(* last min(n, 10) of them in the order read, and the report lists the     *)
(* last min(n, 5) of them, the most recent first.                          *)
ParsedRows(q) == SelectSeq(q, LAMBDA r : r.ok)
LastRows(q, k) == SubSeq(q, Len(q) - k + 1, Len(q))
Reversed(q) == [i \in 1..Len(q) |-> q[Len(q) + 1 - i]]
AtMost(n, k) == IF n < k THEN n ELSE k

C29_RecentTradesWindow ==
    cmd = "check_my_stats" =>
        LET parsed == ParsedRows(csv)
        IN  /\ stats.recent_trades = LastRows(parsed, AtMost(Len(parsed), 10))
            /\ pc = "done" =>
                 report.recent = Reversed(LastRows(parsed, AtMost(Len(parsed), 5)))

\* eleven rows read: the first one, unlike the second, has left the buffer,
\* and five are listed from the eleventh back
C29_Witness ==
    /\ cmd = "check_my_stats"
    /\ pc = "done"
    /\ Len(csv) = 11
    /\ csv[1] # csv[2]
    /\ csv[7] # csv[11]
    /\ stats.recent_trades = SubSeq(csv, 2, 11)
    /\ Len(report.recent) = 5
    /\ report.recent[1] = csv[11]
    /\ report.recent[5] = csv[7]

(* C30: in the setup wizard an existing .env is overwritten only after the *)
(* answer "y" or "yes" to the overwrite prompt; any other answer ends the  *)
(* wizard with .env unmodified and no backup; on confirmation the backup   *)
(* copy is attempted before the new content is written.                    *)
EnvExisted == wizard.env_at_start.kind # "absent"
EnvModified == wizard.env # wizard.env_at_start
NothingTouched ==
    /\ wizard.env = wizard.env_at_start
    /\ wizard.backup.kind = "absent"
    /\ wizard.events = <<>>
CopyThenWrite ==
    \A i \in 1..Len(wizard.events) :
        wizard.events[i] = "write" => i > 1 /\ wizard.events[i - 1] = "copy"

\* as stated, with the answer taken as what prompt_input returned: refuted by "Y"
C30_OverwriteOnlyOnYOrYes ==
    (cmd = "setup" /\ EnvExisted) =>
        /\ EnvModified => wizard.overwrite \in {<<"y">>, <<"y", "e", "s">>}
        /\ (wizard.asked /\ wizard.overwrite \notin {<<"y">>, <<"y", "e", "s">>})
              => pc = "cancelled" /\ NothingTouched
        /\ CopyThenWrite

\* "y" and "yes" in every spelling of upper and lower case
YesAnswers ==
    {<<"y">>, <<"Y">>}
        \cup {<<a, b, c>> : a \in {"y", "Y"}, b \in {"e", "E"}, c \in {"s", "S"}}

\* amended: the answer counts without its surrounding white space and
\* whatever its case
C30_OverwriteOnlyOnYesAnyCase ==
    (cmd = "setup" /\ EnvExisted) =>
        /\ EnvModified => wizard.asked /\ wizard.overwrite \in YesAnswers
        /\ (wizard.asked /\ wizard.overwrite \notin YesAnswers)
              => pc = "cancelled" /\ NothingTouched
        /\ (wizard.asked /\ wizard.overwrite \in YesAnswers)
              => pc \in {"backup", "write", "done", "failed"}
        /\ CopyThenWrite

\* " Y" and Enter were typed, the old file was copied and then replaced
C30_Witness ==
    /\ cmd = "setup"
    /\ pc = "done"
    /\ EnvExisted
    /\ wizard.line = <<" ", "Y", "\n">>
    /\ wizard.overwrite = <<"Y">>
    /\ wizard.events = <<"copy", "write">>
    /\ wizard.backup = wizard.env_at_start
    /\ wizard.env.kind = "new"

====
